---- MODULE Spec2Model ----
(***************************************************************************)
(* Fill Ingestion & Time-Triggered Liquidation Engine of                   *)
(* crypto-trading-automation: fetch_filled_orders.py writes the buy fills  *)
(* of the exchange into the table filled_orders, auto_sell_orders.py       *)
(* sells each stored fill once its sell_time has passed.                   *)
(*                                                                         *)
(* Times are UTC epoch milliseconds, written as offsets from               *)
(* 1700000000000 ms (the fillTimestamp of the reference fill T1), so that  *)
(* the 20 hour holding period keeps its real value of 72,000,000 ms.       *)
(* Quantities are written in units of 0.01.                                *)
(*                                                                         *)
(* Names follow the README: the table is filled_orders, its columns are    *)
(* tradeId, ordId, instId, side, fillSz, fillPx, ts, sell_time and         *)
(* sold_status; sold_status is NULL (unprocessed), PROCESSING (locked) or  *)
(* SOLD (completed).                                                       *)
(***************************************************************************)
EXTENDS Integers, Sequences, FiniteSets, Bags, TLC

(* ------------------------------ bounds -------------------------------- *)

\* number of fetch_filled_orders.py runs (they may overlap)
NumIngest == 2

\* number of auto_sell_orders.py invocations (they may overlap)
NumSched == 2

\* number of clock steps
MaxTick == 4

(* ----------------------------- constants ------------------------------ *)

\* holding period: 20 hours in milliseconds
H == 72000000

Ingest == 1..NumIngest

Sched == 1..NumSched

\* the instants the wall clock passes through: the two fill timestamps,
\* then the instants around the first sell_time (H - 1, H, H + 1, ...)
Instant(i) == IF i < 2 THEN i ELSE H + i - 3

\* the fields of a fill record of the exchange
FillFields == {"tradeId", "ordId", "instId", "side", "fillSz", "fillPx", "ts"}

\* the fills the exchange executes, each at its own ts. T1 and T2 are two
\* partial fills of one buy order that share a timestamp, T4 is a later
\* sell-side fill. T3 is a sell-side fill, T5 a zero-quantity fill and T6 a
\* malformed record (it has no fillSz), all three with the ts of T1.
Fills ==
  [ T1 |-> [tradeId |-> "T1", ordId |-> "O1", instId |-> "BTC-USDT", side |-> "buy",
            fillSz |-> 1, fillPx |-> 50000, ts |-> 0],
    T2 |-> [tradeId |-> "T2", ordId |-> "O1", instId |-> "BTC-USDT", side |-> "buy",
            fillSz |-> 2, fillPx |-> 50000, ts |-> 0],
    T3 |-> [tradeId |-> "T3", ordId |-> "O2", instId |-> "BTC-USDT", side |-> "sell",
            fillSz |-> 1, fillPx |-> 50100, ts |-> 0],
    T4 |-> [tradeId |-> "T4", ordId |-> "O3", instId |-> "ETH-USDT", side |-> "sell",
            fillSz |-> 3, fillPx |-> 4100, ts |-> 1],
    T5 |-> [tradeId |-> "T5", ordId |-> "O4", instId |-> "ETH-USDT", side |-> "buy",
            fillSz |-> 0, fillPx |-> 4100, ts |-> 0],
    T6 |-> [tradeId |-> "T6", ordId |-> "O5", instId |-> "ETH-USDT", side |-> "buy",
            fillPx |-> 4100, ts |-> 0] ]

TradeIds == DOMAIN Fills

NoTrade == "none"

(* ------------------------------- state -------------------------------- *)

VARIABLES
  clock,          \* index of the current instant of the wall clock
  filled_orders,  \* the table: a bag of rows
  watermark,      \* the persisted Watermark (a fill timestamp, -1 before any)
  ipc,            \* ingestion run -> "idle", "processing", "done", "failed"
  batch,          \* running ingestion run -> fills fetched and not yet processed
  pmax,           \* running ingestion run -> greatest ts it has persisted (-1: none)
  ingested,       \* tradeIds some run has written to the table
  reingested,     \* tradeIds written again after their row had left NULL
  spc,            \* invocation -> "idle", "locking", "selling", "confirming", "done", "crashed"
  cand,           \* running invocation -> selected tradeIds it has not tried yet
  lost,           \* running invocation -> tradeIds whose lock update did not apply
  cur,            \* running invocation -> the tradeId it holds the lock of
  lockers,        \* tradeId -> the invocations whose lock update applied to it
  sells,          \* tradeId -> the market-sell submissions issued for it
  \* AlgoTradingService (src/lib/algo-trading.ts)
  apc,            \* executeAlgoBuyOrders: "idle", "prices", "placing", "done", "failed"
  usdt,           \* totalUsdtBalance read by the execution (0 before it is read)
  openPrices,     \* the prices read so far, in configuration order
  results,        \* the TriggerOrderResult list built so far
  algoOrders,     \* the order requests sent to the exchange
  wpc,            \* worker invocation -> "idle", "get", "put", "map", "dispatch", "done"
  wev,            \* worker invocation -> its event: cron and scheduled time
  kv,             \* DEDUP_KV: the run keys it holds
  dispatches,     \* the repository_dispatch requests sent to GitHub, in order
  wresp,          \* worker invocation -> its Response: status and body (0, "" before)
  \* API routes (src/app/api)
  hpc,            \* request -> "idle", "run", "db", "insert", "update", "done"
  hreq,           \* request -> endpoint, action, x-api-key header and parameters
  hstatus,        \* request -> the status of its response (0 before)
  hseen,          \* request -> the portfolio amount its sell has read (-1: none)
  okxCalls,       \* the order requests made to the exchange: operation and request
  trades,         \* the trades table: a set of rows
  portfolio,      \* the portfolio table: symbol -> amount held (no row: absent)
  \* OKXClient (src/lib/okx.ts)
  cpc,            \* "new", "ready" (no call running), "request", "backoff"
  copt,           \* the OKXConfig options maxRetries and retryDelay
  ccalls,         \* placeOrder calls made on the client
  cparams,        \* the orderParams of the last placeOrder call
  cout,           \* how the last call ended: "none", "invalid", "ok", "failed"
  csent,          \* requests sent to the exchange for the last call
  ccreated,       \* orders the exchange created for the last call
  cdelays,        \* the delays waited before the retries of the last call (ms)
  cfires,         \* placeOrder calls that reached the circuit breaker
  cfailures,      \* those of them that failed
  ctripped,       \* the failure rate was above the threshold at the last failure
  csince          \* ms since the last failed call, up to the reset timeout

\* the variables of AlgoTradingService
algoVars == <<apc, usdt, openPrices, results, algoOrders>>

workerVars == <<wpc, wev, kv, dispatches, wresp>>

apiVars == <<hpc, hreq, hstatus, hseen, okxCalls, trades, portfolio>>

\* the variables of the services around the engine
clientVars == <<cpc, copt, ccalls, cparams, cout, csent, ccreated, cdelays,
                cfires, cfailures, ctripped, csince>>

serviceVars == <<algoVars, workerVars, apiVars, clientVars>>

\* the variables of the engine
engineVars == <<clock, filled_orders, watermark, ipc, batch, pmax, ingested, reingested,
                spc, cand, lost, cur, lockers, sells>>

\* what a step of AlgoTradingService leaves alone
notAlgo == <<engineVars, workerVars, apiVars, clientVars>>

\* what a step of the worker leaves alone
notWorker == <<engineVars, algoVars, apiVars, clientVars>>

\* what a step of an API route leaves alone
notApi == <<engineVars, algoVars, workerVars, clientVars>>

\* what a step of OKXClient leaves alone
notClient == <<engineVars, algoVars, workerVars, apiVars>>

vars == <<clock, filled_orders, watermark, ipc, batch, pmax, ingested, reingested,
          spc, cand, lost, cur, lockers, sells, serviceVars>>

ingestVars == <<ipc, batch, pmax, ingested, reingested>>

schedVars == <<spc, cand, lost, cur, lockers, sells>>

(* ------------------------------ the table ----------------------------- *)

Max(a, b) == IF a >= b THEN a ELSE b

\* the rows of the table with this tradeId (each as often as it is stored)
RowsOf(table, tid) == {r \in BagToSet(table) : r.tradeId = tid}

RECURSIVE SumCopies(_, _)
SumCopies(table, rows) ==
  IF rows = {} THEN 0
  ELSE LET r == CHOOSE x \in rows : TRUE
       IN CopiesIn(r, table) + SumCopies(table, rows \ {r})

\* SELECT count(*) FROM filled_orders WHERE tradeId = tid
CountOf(table, tid) == SumCopies(table, RowsOf(table, tid))

\* the sold_status of the row of a tradeId
Status(table, tid) ==
  LET rows == RowsOf(table, tid)
  IN IF rows = {} THEN "absent" ELSE (CHOOSE r \in rows : TRUE).sold_status

StoredIds(table) == {r.tradeId : r \in BagToSet(table)}

\* sell_time computed in seconds instead of milliseconds
SellTimeInSeconds(ts) == ts + 72000

\* sell_time as ts + 20 hours
SellTime(ts) == ts + H

\* the row a fill is first stored as
NewRow(f) ==
  [tradeId |-> f.tradeId, ordId |-> f.ordId, instId |-> f.instId, side |-> f.side,
   fillSz |-> f.fillSz, fillPx |-> f.fillPx, ts |-> f.ts,
   sell_time |-> SellTime(f.ts), sold_status |-> "NULL"]

\* the conflicting row replaced by a fresh one: sold_status is reset
ReplacedRow(r, f) == NewRow(f)

\* ON CONFLICT (tradeId) DO UPDATE: the payload columns are rewritten,
\* sell_time and sold_status are preserved
UpdatedRow(r, f) ==
  [r EXCEPT !.ordId = f.ordId, !.instId = f.instId, !.side = f.side,
            !.fillSz = f.fillSz, !.fillPx = f.fillPx, !.ts = f.ts]

\* a plain INSERT, with no unique constraint on tradeId
PlainInsert(table, f) == table (+) SetToBag({NewRow(f)})

\* INSERT ... ON CONFLICT (tradeId) DO UPDATE
Upsert(table, f) ==
  IF RowsOf(table, f.tradeId) = {}
  THEN table (+) SetToBag({NewRow(f)})
  ELSE LET G(r) == IF r.tradeId = f.tradeId THEN UpdatedRow(r, f) ELSE r
       IN BagOfAll(G, table)

\* the row removed from the table once it is sold
SetStatusOrDelete(table, tid, from, to) ==
  IF to = "SOLD"
  THEN LET keep == {r \in BagToSet(table) : ~(r.tradeId = tid /\ r.sold_status = from)}
       IN [r \in keep |-> table[r]]
  ELSE LET G(r) == IF r.tradeId = tid /\ r.sold_status = from
                   THEN [r EXCEPT !.sold_status = to] ELSE r
       IN BagOfAll(G, table)

\* UPDATE filled_orders SET sold_status = to WHERE tradeId = tid AND sold_status = from
SetStatus(table, tid, from, to) ==
  LET G(r) == IF r.tradeId = tid /\ r.sold_status = from
              THEN [r EXCEPT !.sold_status = to] ELSE r
  IN BagOfAll(G, table)

\* the number of rows that update changes
RowCount(table, tid, from) ==
  SumCopies(table, {r \in RowsOf(table, tid) : r.sold_status = from})

(* ------------------------------ exchange ------------------------------ *)

\* the fills the exchange holds at clock index c
ExchangeFills(c) == {t \in TradeIds : Fills[t].ts <= Instant(c)}

\* the query starts at the Watermark + 1 ms
QueryBegin(wm) == wm + 1

\* get_fills from begin up to now
GetFills(begin, c) == {t \in ExchangeFills(c) : Fills[t].ts >= begin}

\* the fetched list saved without the filter on side
AnySide(fetched) == fetched

\* client-side filtering for side = 'buy', applied to the fetched list
BuyOnly(fetched) == {t \in fetched : Fills[t].side = "buy"}

\* a record with every field of a fill
WellFormed(f) == DOMAIN f = FillFields

\* a record that passes the data-quality check: well formed, fillSz > 0
Sound(f) == WellFormed(f) /\ f.fillSz > 0

\* a fill the ingestion stores: buy side, well formed, fillSz > 0
ValidBuy(f) == f.side = "buy" /\ Sound(f)

\* the ingestion boundary: a malformed or zero-quantity record is rejected
\* and logged, the other records of the list go on
Accepted(fetched) == {t \in fetched : Sound(Fills[t])}

(* --------------------------- initial state ---------------------------- *)

Ended == {"done", "failed", "crashed"}

\* runs and invocations are numbered in the order they start; at most two
\* of a kind overlap
InStartOrder(pc, k) ==
  /\ IF k = 1 THEN TRUE ELSE pc[k - 1] # "idle"
  /\ IF k <= 2 THEN TRUE ELSE pc[k - 2] \in Ended

\* AlgoTradingService before executeAlgoBuyOrders is called
AlgoInit ==
  /\ apc = "idle"
  /\ usdt = 0
  /\ openPrices = <<>>
  /\ results = <<>>
  /\ algoOrders = <<>>

\* number of invocations of the worker's handlers
NumInvocations == 2

Invocation == 1..NumInvocations

\* the event of an invocation that has not started
NoEvent == [cron |-> "", time |-> [hour |-> 0, minute |-> 0]]

\* new Response(body, { status })
Response(body, status) == [status |-> status, body |-> body]

NoResponse == Response("", 0)

WorkerInit ==
  /\ wpc = [w \in Invocation |-> "idle"]
  /\ wev = [w \in Invocation |-> NoEvent]
  /\ kv = {}
  /\ dispatches = <<>>
  /\ wresp = [w \in Invocation |-> NoResponse]

\* number of requests to the API routes
NumRequests == 2

Request == 1..NumRequests

\* the request of a handler that has not been called
NoRequest == [endpoint |-> "", action |-> "", key |-> "none", orderId |-> 0, amount |-> 0]

\* the amount of the symbol the portfolio row holds at the start
Holding == 2

\* the tables as earlier orders left them: two trades of one symbol and
\* the holding they bought
ApiInit ==
  /\ hpc = [h \in Request |-> "idle"]
  /\ hreq = [h \in Request |-> NoRequest]
  /\ hstatus = [h \in Request |-> 0]
  /\ hseen = [h \in Request |-> -1]
  /\ okxCalls = {}
  /\ trades = {[id |-> 1, symbol |-> "BTC", side |-> "buy", status |-> "pending"],
               [id |-> 2, symbol |-> "BTC", side |-> "buy", status |-> "filled"]}
  /\ portfolio = [s \in {"BTC"} |-> Holding]

\* an option the configuration does not give
Undefined == -1

\* resetTimeout of the circuit breaker, in ms
ResetTimeout == 30000

\* no placeOrder call yet
NoOrder == [instId |-> ""]

ClientInit ==
  /\ cpc = "new"
  /\ copt = [maxRetries |-> Undefined, retryDelay |-> Undefined]
  /\ ccalls = 0
  /\ cparams = NoOrder
  /\ cout = "none"
  /\ csent = 0
  /\ ccreated = 0
  /\ cdelays = <<>>
  /\ cfires = 0
  /\ cfailures = 0
  /\ ctripped = FALSE
  /\ csince = ResetTimeout

ServiceInit == AlgoInit /\ WorkerInit /\ ApiInit /\ ClientInit

Init ==
  /\ ServiceInit
  /\ clock = 0
  /\ filled_orders = EmptyBag
  /\ watermark = -1
  /\ ipc = [r \in Ingest |-> "idle"]
  /\ batch = [r \in Ingest |-> {}]
  /\ pmax = [r \in Ingest |-> -1]
  /\ ingested = {}
  /\ reingested = {}
  /\ spc = [s \in Sched |-> "idle"]
  /\ cand = [s \in Sched |-> {}]
  /\ lost = [s \in Sched |-> {}]
  /\ cur = [s \in Sched |-> NoTrade]
  /\ lockers = [t \in TradeIds |-> {}]
  /\ sells = [t \in TradeIds |-> <<>>]

\* the wall clock advances
Tick ==
  /\ clock < MaxTick
  /\ clock' = clock + 1
  /\ UNCHANGED <<serviceVars, filled_orders, watermark, ingestVars, schedVars>>

(* ------------------------------ ingestion ----------------------------- *)

\* a run starts: it reads the Watermark, queries the exchange and keeps
\* the valid buy fills
IngestStart(r) ==
  /\ ipc[r] = "idle"
  /\ InStartOrder(ipc, r)
  /\ ipc' = [ipc EXCEPT ![r] = "processing"]
  /\ batch' = [batch EXCEPT ![r] = Accepted(BuyOnly(GetFills(QueryBegin(watermark), clock)))]
  /\ UNCHANGED <<serviceVars, clock, filled_orders, watermark, pmax, ingested, reingested, schedVars>>

\* the run processes one fill of its list: the fill is upserted
IngestItem(r, t) ==
  /\ ipc[r] = "processing"
  /\ t \in batch[r]
  /\ batch' = [batch EXCEPT ![r] = @ \ {t}]
  /\ filled_orders' = Upsert(filled_orders, Fills[t])
  /\ pmax' = [pmax EXCEPT ![r] = Max(@, Fills[t].ts)]
  /\ ingested' = ingested \cup {t}
  /\ reingested' =
       IF Status(filled_orders, t) \in {"PROCESSING", "SOLD"}
       THEN reingested \cup {t} ELSE reingested
  /\ UNCHANGED <<serviceVars, clock, watermark, ipc, schedVars>>

\* the Watermark overwritten with what this run persisted
OverwriteWatermark(wm, p) == p

\* the Watermark after a run whose greatest persisted ts is p: a single
\* guarded write, the maximum of the stored value and p
AdvanceWatermark(wm, p) == Max(wm, p)

\* the run ends and its process is gone
IngestEnd(r, how) ==
  /\ watermark' = AdvanceWatermark(watermark, pmax[r])
  /\ ipc' = [ipc EXCEPT ![r] = how]
  /\ batch' = [batch EXCEPT ![r] = {}]
  /\ pmax' = [pmax EXCEPT ![r] = -1]
  /\ UNCHANGED <<serviceVars, clock, filled_orders, ingested, reingested, schedVars>>

\* the run has processed its whole batch and advances the Watermark
IngestFinish(r) ==
  /\ ipc[r] = "processing"
  /\ batch[r] = {}
  /\ IngestEnd(r, "done")

\* a network failure stops the run in the middle of its batch: the rows
\* persisted so far stay, the Watermark advances to the last success
IngestFail(r) ==
  /\ ipc[r] = "processing"
  /\ batch[r] # {}
  /\ IngestEnd(r, "failed")

(* ------------------------------ scheduler ----------------------------- *)

\* a selection that leaves out only the rows already SOLD
EligibleNotSold(row, now) == row.sold_status # "SOLD" /\ row.sell_time < now

\* a selection that takes the row whose sell_time is now
EligibleAtDeadline(row, now) == row.sold_status = "NULL" /\ row.sell_time <= now

\* a row the invocation selects at time now
Eligible(row, now) == row.sold_status = "NULL" /\ row.sell_time < now

\* the selection of an invocation at time now
SelectRows(table, now) == {row.tradeId : row \in {x \in BagToSet(table) : Eligible(x, now)}}

\* the invocation starts and selects its candidates
Select(s) ==
  /\ spc[s] = "idle"
  /\ InStartOrder(spc, s)
  /\ cand' = [cand EXCEPT ![s] = SelectRows(filled_orders, Instant(clock))]
  /\ spc' = [spc EXCEPT ![s] = "locking"]
  /\ UNCHANGED <<serviceVars, clock, filled_orders, watermark, ingestVars, lost, cur, lockers, sells>>

\* the status the lock update requires the row to have
LockFrom == "NULL"

\* the row marked SOLD before the sell, as before PROCESSING existed
LockToSold == "SOLD"

\* the status the lock update writes: the row is marked before the sell
LockTo == "PROCESSING"

\* a lock update with no condition on sold_status
LockUnconditional(table, tid) == CountOf(table, tid) > 0

\* whether the lock update applies
LockApplies(table, tid) == RowCount(table, tid, LockFrom) > 0

\* the invocation goes on to sell a candidate without marking its row
TryLockNoMark(s, t) ==
  /\ spc[s] = "locking"
  /\ t \in cand[s]
  /\ cand' = [cand EXCEPT ![s] = @ \ {t}]
  /\ cur' = [cur EXCEPT ![s] = t]
  /\ spc' = [spc EXCEPT ![s] = "selling"]
  /\ UNCHANGED <<serviceVars, clock, filled_orders, watermark, ingestVars, lost, lockers, sells>>

\* the invocation tries to lock one candidate: NULL -> PROCESSING, applied
\* only if the row is still NULL; a row it could not lock is skipped
TryLock(s, t) ==
  /\ spc[s] = "locking"
  /\ t \in cand[s]
  /\ cand' = [cand EXCEPT ![s] = @ \ {t}]
  /\ IF LockApplies(filled_orders, t)
     THEN /\ filled_orders' = SetStatus(filled_orders, t, LockFrom, LockTo)
          /\ lockers' = [lockers EXCEPT ![t] = @ \cup {s}]
          /\ cur' = [cur EXCEPT ![s] = t]
          /\ spc' = [spc EXCEPT ![s] = "selling"]
          /\ UNCHANGED lost
     ELSE /\ lost' = [lost EXCEPT ![s] = @ \cup {t}]
          /\ UNCHANGED <<filled_orders, lockers, cur, spc>>
  /\ UNCHANGED <<serviceVars, clock, watermark, ingestVars, sells>>

RECURSIVE SumFillSz(_)
SumFillSz(tids) ==
  IF tids = {} THEN 0
  ELSE LET t == CHOOSE x \in tids : TRUE
       IN Fills[t].fillSz + SumFillSz(tids \ {t})

\* accFillSz: the accumulated filled size of the order a row belongs to
AccFillSz(row) == SumFillSz({t \in TradeIds : Fills[t].ordId = row.ordId})

\* a sell sized by the accumulated size of the order (accFillSz)
SellOrderAccumulated(s, row) ==
  [by |-> s, instId |-> row.instId, side |-> "sell", ordType |-> "market",
   sz |-> AccFillSz(row)]

\* the market sell the invocation submits for a row
SellOrder(s, row) ==
  [by |-> s, instId |-> row.instId, side |-> "sell", ordType |-> "market", sz |-> row.fillSz]

\* the status a row has after its sell submission failed or timed out
AfterFailure == "PROCESSING"

\* the row marked SOLD as soon as the sell is sent, whatever the exchange
\* answers
SubmitSellMarksSold(s, accepted) ==
  /\ spc[s] = "selling"
  /\ \E row \in RowsOf(filled_orders, cur[s]) :
       sells' = [sells EXCEPT ![cur[s]] = Append(@, SellOrder(s, row))]
  /\ filled_orders' = SetStatus(filled_orders, cur[s], "PROCESSING", "SOLD")
  /\ cur' = [cur EXCEPT ![s] = NoTrade]
  /\ spc' = [spc EXCEPT ![s] = "locking"]
  /\ UNCHANGED <<serviceVars, clock, watermark, ingestVars, cand, lost, lockers>>

\* a submission that failed ends the invocation, whatever is left to do
SubmitSellOrGiveUp(s, accepted) ==
  /\ spc[s] = "selling"
  /\ \E row \in RowsOf(filled_orders, cur[s]) :
       sells' = [sells EXCEPT ![cur[s]] = Append(@, SellOrder(s, row))]
  /\ IF accepted
     THEN /\ spc' = [spc EXCEPT ![s] = "confirming"]
          /\ UNCHANGED <<filled_orders, cur, cand, lost>>
     ELSE /\ filled_orders' = SetStatus(filled_orders, cur[s], "PROCESSING", "PROCESSING")
          /\ cur' = [cur EXCEPT ![s] = NoTrade]
          /\ cand' = [cand EXCEPT ![s] = {}]
          /\ lost' = [lost EXCEPT ![s] = {}]
          /\ spc' = [spc EXCEPT ![s] = "done"]
  /\ UNCHANGED <<serviceVars, clock, watermark, ingestVars, lockers>>

\* the invocation submits the market sell of the row it locked; the
\* exchange accepts it, or the submission fails or times out
SubmitSell(s, accepted) ==
  /\ spc[s] = "selling"
  /\ \E row \in RowsOf(filled_orders, cur[s]) :
       sells' = [sells EXCEPT ![cur[s]] = Append(@, SellOrder(s, row))]
  /\ IF accepted
     THEN /\ spc' = [spc EXCEPT ![s] = "confirming"]
          /\ UNCHANGED <<filled_orders, cur>>
     ELSE /\ filled_orders' = SetStatus(filled_orders, cur[s], "PROCESSING", AfterFailure)
          /\ cur' = [cur EXCEPT ![s] = NoTrade]
          /\ spc' = [spc EXCEPT ![s] = "locking"]
  /\ UNCHANGED <<serviceVars, clock, watermark, ingestVars, cand, lost, lockers>>

\* the exchange confirmed: PROCESSING -> SOLD
Complete(s) ==
  /\ spc[s] = "confirming"
  /\ filled_orders' = SetStatus(filled_orders, cur[s], "PROCESSING", "SOLD")
  /\ cur' = [cur EXCEPT ![s] = NoTrade]
  /\ spc' = [spc EXCEPT ![s] = "locking"]
  /\ UNCHANGED <<serviceVars, clock, watermark, ingestVars, cand, lost, lockers, sells>>

\* the invocation ends and its process is gone
SchedEnd(s, how) ==
  /\ spc' = [spc EXCEPT ![s] = how]
  /\ cand' = [cand EXCEPT ![s] = {}]
  /\ lost' = [lost EXCEPT ![s] = {}]
  /\ cur' = [cur EXCEPT ![s] = NoTrade]
  /\ UNCHANGED <<serviceVars, clock, filled_orders, watermark, ingestVars, lockers, sells>>

\* the invocation has tried every candidate
Finish(s) ==
  /\ spc[s] = "locking"
  /\ cand[s] = {}
  /\ SchedEnd(s, "done")

\* the invocation crashes while it holds a lock: nothing is written
Crash(s) ==
  /\ spc[s] \in {"selling", "confirming"}
  /\ SchedEnd(s, "crashed")

Next ==
  \/ Tick
  \/ \E r \in Ingest : IngestStart(r)
  \/ \E r \in Ingest, t \in TradeIds : IngestItem(r, t)
  \/ \E r \in Ingest : IngestFinish(r)
  \/ \E r \in Ingest : IngestFail(r)
  \/ \E s \in Sched : Select(s)
  \/ \E s \in Sched, t \in TradeIds : TryLock(s, t)
  \/ \E s \in Sched, accepted \in BOOLEAN : SubmitSell(s, accepted)
  \/ \E s \in Sched : Complete(s)
  \/ \E s \in Sched : Finish(s)
  \/ \E s \in Sched : Crash(s)

Spec == Init /\ [][Next]_vars

(* ------------------------------- claims ------------------------------- *)

Row(tid) == CHOOSE r \in RowsOf(filled_orders, tid) : TRUE

\* a locked row no invocation holds: its sell failed or timed out, or the
\* invocation that locked it crashed
Stuck(tid) ==
  /\ Status(filled_orders, tid) = "PROCESSING"
  /\ \A s \in Sched : cur[s] # tid

\* C1: for every tradeId at most one market-sell submission is ever issued,
\* whatever the interleaving of the invocations, and a SOLD row has exactly one.
C1_ExactlyOneSell ==
  \A t \in TradeIds :
    /\ Len(sells[t]) <= 1
    /\ Status(filled_orders, t) = "SOLD" => Len(sells[t]) = 1

\* two invocations tried the same row and one sell was issued for it
C1_Witness ==
  \E t \in TradeIds, s \in Sched : t \in lost[s] /\ Len(sells[t]) = 1

\* C2: of the overlapping invocations that selected the same NULL row exactly
\* one applies NULL -> PROCESSING; every other one finds its update not
\* applied, skips the row and submits no sell for it.
C2_OneLockWinner ==
  \A t \in TradeIds :
    /\ Cardinality(lockers[t]) <= 1
    /\ \A s \in Sched :
         t \in lost[s] =>
           /\ Cardinality(lockers[t]) = 1
           /\ s \notin lockers[t]
           /\ cur[s] # t
           /\ \A i \in 1..Len(sells[t]) : sells[t][i].by # s
    /\ \A i \in 1..Len(sells[t]) : sells[t][i].by \in lockers[t]

\* one invocation locked the row while the other, which had selected it too,
\* skipped it
C2_Witness ==
  \E t \in TradeIds, s1, s2 \in Sched :
    s1 # s2 /\ s1 \in lockers[t] /\ t \in lost[s2]

\* C3: the table holds at most one row per tradeId, and exactly one for a
\* fill that was ingested one or more times.
C3_OneRowPerTradeId ==
  \A t \in TradeIds :
    LET count == CountOf(filled_orders, t)
    IN count <= 1 /\ (t \in ingested => count = 1)

\* two overlapping runs have each written their whole batch, the same two
\* fills (a query returns T1 and T2 together, they share their ts)
C3_Witness ==
  \E r1, r2 \in Ingest :
    /\ r1 # r2
    /\ ipc[r1] = "processing" /\ batch[r1] = {} /\ pmax[r1] = 0
    /\ ipc[r2] = "processing" /\ batch[r2] = {} /\ pmax[r2] = 0
    /\ CountOf(filled_orders, "T1") = 1 /\ CountOf(filled_orders, "T2") = 1

\* sold_status and sell_time of the rows of a tradeId
Authoritative(table, tid) ==
  {<<r.sold_status, r.sell_time>> : r \in RowsOf(table, tid)}

\* a step of an ingestion run: it fetches, processes a fill or ends
IngestStep == <<ipc, batch>>' # <<ipc, batch>>

\* C4: an ingestion write of a tradeId already stored leaves the sold_status
\* and the sell_time of its row as they were, whatever the row's status.
C4_IngestPreserves ==
  [][(IngestStep /\ filled_orders' # filled_orders) =>
       \A tid \in StoredIds(filled_orders) :
         Authoritative(filled_orders', tid) = Authoritative(filled_orders, tid)]_vars

\* a fill ingested again after its row had been locked, and now SOLD
C4_Witness ==
  \E t \in reingested : Status(filled_orders, t) = "SOLD"

\* C5: the only changes of sold_status are NULL -> PROCESSING and
\* PROCESSING -> SOLD (a row is first stored as NULL).
C5_StatusTransitions ==
  [][\/ filled_orders' = filled_orders
     \/ \A t \in TradeIds :
          LET a == Status(filled_orders, t)
              b == Status(filled_orders', t)
          IN a = b \/ <<a, b>> \in {<<"absent", "NULL">>, <<"NULL", "PROCESSING">>,
                                    <<"PROCESSING", "SOLD">>}]_vars

\* a row that went all the way to SOLD
C5_Witness ==
  \E t \in TradeIds : Status(filled_orders, t) = "SOLD" /\ Len(sells[t]) = 1

\* C6: a row left PROCESSING by a failed or timed-out submission or by a
\* crash stays PROCESSING, is selected by no later invocation and gets no
\* further sell submission.
C6_StuckStaysLocked ==
  [][\/ UNCHANGED <<filled_orders, sells, cand>>
     \/ \A t \in TradeIds :
          Stuck(t) =>
            /\ Status(filled_orders', t) = "PROCESSING"
            /\ sells'[t] = sells[t]
            /\ \A s \in Sched : t \in cand'[s] => t \in cand[s]]_vars

\* a submission failed and another invocation is running without the row
C6_Witness ==
  \E t \in TradeIds, s \in Sched :
    /\ Stuck(t) /\ Len(sells[t]) = 1
    /\ spc[s] = "locking" /\ t \notin cand[s] /\ t \notin lost[s] /\ s \notin lockers[t]

\* C7: every valid buy fill the exchange holds with ts <= Watermark is in
\* the table.
C7_NoFillBehindWatermark ==
  \A t \in ExchangeFills(clock) :
    (ValidBuy(Fills[t]) /\ Fills[t].ts <= watermark) => t \in StoredIds(filled_orders)

C9_SellDeadline ==
  /\ [](\A r \in BagToSet(filled_orders) : r.sell_time = r.ts + 72000000)
  /\ [][("T1" \notin StoredIds(filled_orders) /\ "T1" \in StoredIds(filled_orders')) =>
          \A r \in RowsOf(filled_orders', "T1") :
            r.ts = 0 /\ r.sell_time = 72000000 /\ r.sold_status = "NULL"]_vars

\* T1 is stored, was ingested again, and has been sold
C9_Witness ==
  /\ "T1" \in reingested
  /\ \E r \in RowsOf(filled_orders, "T1") : r.sell_time = 72000000 /\ r.sold_status = "SOLD"

\* the step in which invocation s selects
Selecting(s) == spc[s] = "idle" /\ spc'[s] = "locking"

Touched ==
  {t \in TradeIds : RowsOf(filled_orders', t) # RowsOf(filled_orders, t) \/ sells'[t] # sells[t]}

\* C11: every market-sell submission for a fill has sz equal to the fillSz of
\* that fill, on its instId, never the accumulated size of the order; fills
\* that share an ordId are locked and sold one by one, a step on the row of
\* one of them leaves the row and the submissions of the other as they were.
C11_OwnQuantity ==
  /\ [](\A t \in TradeIds : \A i \in 1..Len(sells[t]) :
         /\ sells[t][i].sz = Fills[t].fillSz
         /\ sells[t][i].instId = Fills[t].instId
         /\ sells[t][i].side = "sell" /\ sells[t][i].ordType = "market"
         /\ sells[t][i].sz # AccFillSz(Fills[t]))
  /\ [](\A r \in BagToSet(filled_orders) :
         r.fillSz = Fills[r.tradeId].fillSz /\ r.sell_time = SellTime(Fills[r.tradeId].ts))
  /\ [][UNCHANGED <<filled_orders, sells>> \/ Cardinality(Touched) <= 1]_vars

\* the two partial fills of order O1 were sold by different invocations, T1
\* with sz 1 and completed, T2 with sz 2 and not confirmed
C11_Witness ==
  /\ Fills["T1"].ordId = Fills["T2"].ordId
  /\ Status(filled_orders, "T1") = "SOLD" /\ Status(filled_orders, "T2") = "PROCESSING"
  /\ Len(sells["T1"]) = 1 /\ Len(sells["T2"]) = 1
  /\ sells["T1"][1].sz = 1 /\ sells["T2"][1].sz = 2
  /\ sells["T1"][1].by # sells["T2"][1].by

\* invocation s holds the lock of t and is at position pos
Holds(s, t, pos) == spc[s] = pos /\ cur[s] = t /\ s \in lockers[t]

\* C12: a row is SOLD only if the invocation that applied its NULL ->
\* PROCESSING update submitted a market sell for it and the exchange accepted
\* the sell (the invocation is then at "confirming"); for every row the lock
\* comes first, the submission second and SOLD last.
C12_SoldAfterAcceptedSell ==
  /\ [](\A t \in TradeIds :
         Status(filled_orders, t) = "SOLD" =>
           Len(sells[t]) = 1 /\ sells[t][1].by \in lockers[t])
  /\ [][/\ \/ filled_orders' = filled_orders
           \/ \A t \in TradeIds :
                (Status(filled_orders, t) # "SOLD" /\ Status(filled_orders', t) = "SOLD") =>
                  \E s \in Sched :
                    Holds(s, t, "confirming") /\ Len(sells[t]) = 1 /\ sells[t][1].by = s
        /\ \/ sells' = sells
           \/ \A t \in TradeIds :
                sells'[t] # sells[t] =>
                  /\ Status(filled_orders, t) = "PROCESSING"
                  /\ \E s \in Sched :
                       Holds(s, t, "selling")
                       /\ sells'[t] = Append(sells[t], SellOrder(s, Row(t)))
        /\ \/ spc' = spc
           \/ \A s \in Sched :
                (spc[s] # "confirming" /\ spc'[s] = "confirming") =>
                  (cur[s] \in TradeIds => Holds(s, cur[s], "selling"))]_vars

\* one invocation sold T1, accepted and marked SOLD, and its sell of T2
\* failed: T2 stays PROCESSING
C12_Witness ==
  \E s \in Sched :
    /\ Status(filled_orders, "T1") = "SOLD" /\ Status(filled_orders, "T2") = "PROCESSING"
    /\ lockers["T1"] = {s} /\ lockers["T2"] = {s}
    /\ Len(sells["T1"]) = 1 /\ Len(sells["T2"]) = 1
    /\ spc[s] = "locking"

\* the step in which ingestion run r starts
Starting(r) == ipc[r] = "idle" /\ ipc'[r] = "processing"

\* C13: after a run stopped by a network failure in the middle of its batch
\* the rows it persisted stay in the table, and the query of the next run
\* returns every valid buy fill the exchange holds that is not stored.
C13_RemainderRequestedAgain ==
  [][/\ StoredIds(filled_orders) \subseteq StoredIds(filled_orders')
     /\ \A r \in Ingest :
          (Starting(r) /\ \E r0 \in Ingest : ipc[r0] = "failed") =>
            \A t \in ExchangeFills(clock) :
              (ValidBuy(Fills[t]) /\ t \notin StoredIds(filled_orders)) => t \in batch'[r]]_vars

\* C14: provided invocations keep being triggered, every stored row whose
\* sell_time has passed eventually becomes SOLD, a sell that did not succeed
\* being retried by a later invocation. For that, a row past its sell_time
\* has to be, at every moment, SOLD, or held by a running invocation, or
\* selected by the next invocation that starts: from any other state no
\* number of later invocations sells it.
C14_OverdueStillSellable ==
  \A r \in BagToSet(filled_orders) :
    r.sell_time < Instant(clock) =>
      \/ r.sold_status = "SOLD"
      \/ \E s \in Sched : cur[s] = r.tradeId
      \/ r.tradeId \in SelectRows(filled_orders, Instant(clock))

\* C15: every row of the table is a buy-side fill, well formed, with
\* fillSz > 0: the sell-side, malformed and zero-quantity records the exchange
\* returns are not stored.
C15_OnlyValidBuysStored ==
  /\ \A r \in BagToSet(filled_orders) :
       /\ r.side = "buy" /\ r.fillSz > 0
       /\ r.tradeId \in TradeIds /\ WellFormed(Fills[r.tradeId])
       /\ DOMAIN r = FillFields \cup {"sell_time", "sold_status"}
  /\ StoredIds(filled_orders) \subseteq {"T1", "T2"}

\* a run has stored T1 and T2 and is done: its query started at or before
\* their ts and returned with them the sell-side T3, the zero-quantity T5 and
\* the malformed T6, which share that ts
C15_Witness ==
  /\ {"T3", "T5", "T6"} \subseteq GetFills(Fills["T1"].ts, clock)
  /\ StoredIds(filled_orders) = {"T1", "T2"}
  /\ \E r \in Ingest : ipc[r] = "done"

\* the positions of an invocation that is running
Running == {"locking", "selling", "confirming"}

\* C16: an error on one item does not stop the other items of the same run
\* or invocation. The records of a fetched list that pass the checks go on
\* whatever was rejected with them; a selected row leaves the candidates of
\* an invocation only by a lock attempt, a lock that applied is followed by
\* the sell submission, a lost lock or a failed submission leaves the other
\* candidates in place, and the invocation ends only with no candidate left.
C16_ItemErrorsAreLocal ==
  [][\/ UNCHANGED <<ipc, spc, cand>>
     \/ /\ \A r \in Ingest :
             Starting(r) =>
               batch'[r] = {t \in GetFills(QueryBegin(watermark), clock) : ValidBuy(Fills[t])}
        /\ \A s \in Sched :
             (spc[s] \in Running /\ spc'[s] # "crashed") =>
               /\ cand'[s] \subseteq cand[s]
               /\ \A t \in cand[s] \ cand'[s] :
                    \/ t \in lost'[s] /\ spc'[s] = "locking"
                    \/ s \in lockers'[t] /\ cur'[s] = t /\ spc'[s] = "selling"
               /\ spc'[s] = "done" => (cand[s] = {} /\ spc[s] = "locking")
               /\ (spc[s] = "selling" /\ spc'[s] # "selling") =>
                    /\ Len(sells'[cur[s]]) = Len(sells[cur[s]]) + 1
                    /\ cand'[s] = cand[s]
                    /\ spc'[s] \in {"locking", "confirming"}]_vars

\* the sell of one row failed and the invocation has locked the next row;
\* the run that stored both had the rejected T5 and T6 in its fetched list
C16_Witness ==
  \E s \in Sched, a, b \in TradeIds :
    /\ a # b
    /\ Stuck(a) /\ lockers[a] = {s} /\ Len(sells[a]) = 1
    /\ spc[s] = "selling" /\ cur[s] = b /\ lockers[b] = {s}
    /\ {"T5", "T6"} \subseteq GetFills(Fills[a].ts, clock)

\* a step of a Scheduler invocation
SchedStep == <<spc, cand, lost, cur>>' # <<spc, cand, lost, cur>>

\* C17: the set of stored tradeIds only grows: no step of a run or of an
\* invocation deletes a row, whatever its sold_status, and the Watermark is
\* written by an ingestion run only, never by an invocation.
C17_RowsNeverDeleted ==
  [][\/ UNCHANGED <<filled_orders, watermark>>
     \/ /\ StoredIds(filled_orders) \subseteq StoredIds(filled_orders')
        /\ \A t \in TradeIds : CountOf(filled_orders', t) >= CountOf(filled_orders, t)
        /\ SchedStep => watermark' = watermark
        /\ watermark' # watermark =>
             \E r \in Ingest : ipc[r] = "processing" /\ ipc'[r] \in {"done", "failed"}]_vars

\* every run and every invocation has ended; T1 is SOLD, T2 is left
\* PROCESSING, both rows are in the table and the Watermark is their ts
C17_Witness ==
  /\ \A r \in Ingest : ipc[r] \in Ended
  /\ \A s \in Sched : spc[s] \in Ended
  /\ Status(filled_orders, "T1") = "SOLD" /\ Status(filled_orders, "T2") = "PROCESSING"
  /\ watermark = 0

(* ------------- AlgoTradingService (src/lib/algo-trading.ts) ------------ *)
(* Prices are written in units of 0.1 USDT, order sizes in units of        *)
(* 0.0001, balances in USDT.                                               *)

\* number of entries of tradingConfig.cryptocurrencies
NumCryptos == 3

\* tradingConfig.cryptocurrencies in insertion order: symbol and limit (a
\* percentage), with the last traded price the exchange reports for it
Cryptos ==
  << [symbol |-> "BTC", limit |-> 90, last |-> 500000],
     [symbol |-> "ETH-USDT", limit |-> 90, last |-> 40000],
     [symbol |-> "SOL", limit |-> 95, last |-> 2000],
     [symbol |-> "DOGE", limit |-> 80, last |-> 10] >>

Configured == 1..NumCryptos

\* symbol.includes('-')
IncludesDash(symbol) == symbol \in {"ETH-USDT"}

\* formatTradingPair
FormatTradingPair(symbol) == IF IncludesDash(symbol) THEN symbol ELSE symbol \o "-USDT"

\* the value of balanceAmount / 0
Infinity == 2147483647

\* triggerPrice = dayOpenPrice * (parseFloat(config.limit) / 100)
TriggerPrice(dayOpenPrice, limit) == (dayOpenPrice * limit) \div 100

\* cryptoAmount = balanceAmount / triggerPrice
CryptoAmount(balanceAmount, triggerPrice) ==
  IF triggerPrice = 0 THEN Infinity ELSE (balanceAmount * 100000) \div triggerPrice

\* orderParams of placeTriggerOrderForCrypto
OrderParams(symbol, limit, balanceAmount, dayOpenPrice) ==
  [instId |-> FormatTradingPair(symbol), tdMode |-> "cash", side |-> "buy",
   ordType |-> "limit",
   sz |-> CryptoAmount(balanceAmount, TriggerPrice(dayOpenPrice, limit)),
   px |-> TriggerPrice(dayOpenPrice, limit)]

\* a validation without the test of the order size
ValidButForSize(params) ==
  /\ \A f \in {"instId", "tdMode", "side", "ordType"} : f \in DOMAIN params /\ params[f] # ""
  /\ "sz" \in DOMAIN params
  /\ params.ordType = "limit" => "px" \in DOMAIN params

\* validateOrderParams: the checks that pass before a request is made
ValidOrderParams(params) ==
  /\ \A f \in {"instId", "tdMode", "side", "ordType"} : f \in DOMAIN params /\ params[f] # ""
  /\ "sz" \in DOMAIN params
  /\ params.ordType = "limit" => "px" \in DOMAIN params
  /\ params.sz > 0

\* an order the exchange can accept: a finite size and a positive price
ExchangeAccepts(params) == params.sz > 0 /\ params.sz < Infinity /\ params.px > 0

\* the message of the result pushed for a symbol
Message(sent, answer) ==
  CASE ~sent -> "Invalid order parameters"
    [] answer = "ok" -> "Trigger order placed successfully"
    [] answer = "empty" -> "No order data received from OKX"
    [] OTHER -> "OKX API Error"

\* the balances the account may hold in USDT
UsdtBalances == {0, 1000, 2000}

\* getBalance and the check of the USDT balance: the call fails, or there is
\* no positive availBal, and the execution throws; else it goes on
AlgoGetBalance(outcome) ==
  /\ apc = "idle"
  /\ IF outcome = "error"
     THEN apc' = "failed" /\ UNCHANGED usdt
     ELSE \E availBal \in UsdtBalances :
            IF availBal <= 0
            THEN apc' = "failed" /\ UNCHANGED usdt
            ELSE apc' = "prices" /\ usdt' = availBal
  /\ UNCHANGED <<openPrices, results, algoOrders, notAlgo>>

\* getDaysOpenPrices, one symbol: the current market price, or 0 when the
\* price request fails
AlgoGetPrice(ok) ==
  /\ apc = "prices"
  /\ LET i == Len(openPrices) + 1
     IN /\ openPrices' = Append(openPrices, IF ok THEN Cryptos[i].last ELSE 0)
        /\ apc' = IF i = NumCryptos THEN "placing" ELSE "prices"
  /\ UNCHANGED <<usdt, results, algoOrders, notAlgo>>

\* one turn of the loop of executeAlgoBuyOrders: placeTriggerOrderForCrypto
\* for the next symbol. answer is what placeOrder gives: "ok" (order data),
\* "empty" (no order data) or "error" (the call throws).
AlgoPlace(answer) ==
  /\ apc = "placing"
  /\ LET i == Len(results) + 1
         c == Cryptos[i]
         params == OrderParams(c.symbol, c.limit, usdt, openPrices[i])
         sent == ValidOrderParams(params)
         placed == sent /\ answer = "ok"
     IN /\ answer = "ok" => ExchangeAccepts(params)
        /\ algoOrders' = IF sent THEN Append(algoOrders, params) ELSE algoOrders
        /\ results' =
             Append(results,
                    IF placed
                    THEN [symbol |-> c.symbol, success |-> TRUE,
                          triggerPrice |-> params.px, amount |-> params.sz,
                          message |-> Message(sent, answer)]
                    ELSE [symbol |-> c.symbol, success |-> FALSE,
                          triggerPrice |-> 0, amount |-> usdt,
                          message |-> Message(sent, answer)])
        /\ apc' = IF i = NumCryptos THEN "done" ELSE "placing"
  /\ UNCHANGED <<usdt, openPrices, notAlgo>>

AlgoNext ==
  \/ \E outcome \in {"error", "balances"} : AlgoGetBalance(outcome)
  \/ \E ok \in BOOLEAN : AlgoGetPrice(ok)
  \/ \E answer \in {"ok", "empty", "error"} : AlgoPlace(answer)

AlgoSpec == Init /\ [][AlgoNext]_vars

\* the order requests sent for the i-th configured symbol
OrdersFor(i) ==
  {k \in 1..Len(algoOrders) : algoOrders[k].instId = FormatTradingPair(Cryptos[i].symbol)}

\* C18: for each configured instrument with reference price P and
\* coefficient c, one conditional buy order is placed per trigger price, at
\* 99.9% and at 100.1% of P*c/100, whatever happened to the other orders.
C18_TwoTriggersPerInstrument ==
  apc = "done" =>
    \A i \in Configured :
      openPrices[i] > 0 =>
        LET base == (openPrices[i] * Cryptos[i].limit) \div 100
        IN /\ Cardinality(OrdersFor(i)) = 2
           /\ {<<algoOrders[k].ordType, algoOrders[k].side, algoOrders[k].px>> : k \in OrdersFor(i)}
                = {<<"trigger", "buy", (base * 999) \div 1000>>,
                   <<"trigger", "buy", (base * 1001) \div 1000>>}

(* ------------------ Cron worker (src/cloudflare-worker.js) ------------- *)

\* the cron expressions of the worker's triggers: the keys of cronMap
EveryFive == "1,6,11,16,21,26,31,36,41,46,51,56 * * * *"
EveryFifteen == "0,15,30,45 * * * *"
Nightly == "55 15 * * *"
Morning == "5 16 * * *"

Crons == {EveryFive, EveryFifteen, Nightly, Morning}

\* a trigger of the documented wrangler.toml that cronMap has no key for
EveryQuarter == "*/15 * * * *"

\* the cron triggers the worker may be deployed with
Triggers == Crons \cup {EveryQuarter}

\* the minute list of the monitoring schedule as the README gives it
CronMinutesReadme(cron) ==
  CASE cron = EveryFive -> {2, 9, 16, 23, 30, 37, 44, 51, 58}
    [] cron \in {EveryFifteen, EveryQuarter} -> {0, 15, 30, 45}
    [] cron = Nightly -> {55}
    [] cron = Morning -> {5}
    [] OTHER -> {}

\* the minutes and hours (UTC) a cron expression names
CronMinutes(cron) ==
  CASE cron = EveryFive -> {1, 6, 11, 16, 21, 26, 31, 36, 41, 46, 51, 56}
    [] cron \in {EveryFifteen, EveryQuarter} -> {0, 15, 30, 45}
    [] cron = Nightly -> {55}
    [] cron = Morning -> {5}
    [] OTHER -> {}

CronHours(cron) ==
  CASE cron = Nightly -> {15}
    [] cron = Morning -> {16}
    [] cron \in {EveryFive, EveryFifteen, EveryQuarter} -> 0..23
    [] OTHER -> {}

\* the platform fires a cron trigger at the minutes its expression names
Fires(cron, time) == time.minute \in CronMinutes(cron) /\ time.hour \in CronHours(cron)

\* the scheduled times considered, all of one UTC day
Times ==
  {[hour |-> 15, minute |-> 55], [hour |-> 16, minute |-> 0],
   [hour |-> 16, minute |-> 1], [hour |-> 16, minute |-> 5]}

\* runKey = run:<cron>:<YYYYMMDDHHmm>
RunKey(event) == <<"run", event.cron, event.time.hour, event.time.minute>>

\* the mapping with the nightly list of the minute-based version of the worker
cronMapNightlyCancelOnly ==
  [cron \in Crons |->
     CASE cron = EveryFive -> <<"monitor_delist", "cancel_pending_limits">>
       [] cron = EveryFifteen -> <<"fetch_filled_orders", "auto_sell_orders">>
       [] cron = Nightly -> <<"cancel_pending_triggers">>
       [] OTHER -> <<"create_algo_triggers">>]

\* cronMap
cronMap ==
  [cron \in Crons |->
     CASE cron = EveryFive -> <<"monitor_delist", "cancel_pending_limits">>
       [] cron = EveryFifteen -> <<"fetch_filled_orders", "auto_sell_orders">>
       [] cron = Nightly -> <<"auto_sell_orders", "cancel_pending_triggers">>
       [] OTHER -> <<"create_algo_triggers">>]

\* scheduled, entry: the platform invokes the handler for a cron trigger
\* that fires at the scheduled time
Scheduled(w, cron, time) ==
  /\ wpc[w] = "idle"
  /\ Fires(cron, time)
  /\ wev' = [wev EXCEPT ![w] = [cron |-> cron, time |-> time]]
  /\ wpc' = [wpc EXCEPT ![w] = "get"]
  /\ UNCHANGED <<kv, dispatches, wresp, notWorker>>

\* fetch with method POST: scheduled({cron: 'manual'}), the scheduled time
\* being the time of the call
FetchPost(w, time) ==
  /\ wpc[w] = "idle"
  /\ wev' = [wev EXCEPT ![w] = [cron |-> "manual", time |-> time]]
  /\ wpc' = [wpc EXCEPT ![w] = "get"]
  /\ UNCHANGED <<kv, dispatches, wresp, notWorker>>

\* existingRun = await DEDUP_KV.get(runKey): a duplicate ends here; a
\* failure of the KV store is caught and the execution continues
KvGet(w, ok) ==
  /\ wpc[w] = "get"
  /\ IF ~ok
     THEN wpc' = [wpc EXCEPT ![w] = "map"] /\ UNCHANGED wresp
     ELSE IF RunKey(wev[w]) \in kv
          THEN /\ wpc' = [wpc EXCEPT ![w] = "done"]
               /\ wresp' = [wresp EXCEPT ![w] = Response("Duplicate execution prevented", 200)]
          ELSE wpc' = [wpc EXCEPT ![w] = "put"] /\ UNCHANGED wresp
  /\ UNCHANGED <<wev, kv, dispatches, notWorker>>

\* await DEDUP_KV.put(runKey, timestamp, {expirationTtl: 3600}); a failure
\* is caught and the execution continues
KvPut(w, ok) ==
  /\ wpc[w] = "put"
  /\ kv' = IF ok THEN kv \cup {RunKey(wev[w])} ELSE kv
  /\ wpc' = [wpc EXCEPT ![w] = "map"]
  /\ UNCHANGED <<wev, dispatches, wresp, notWorker>>

\* scripts = cronMap.get(event.cron)
Lookup(w) ==
  /\ wpc[w] = "map"
  /\ IF wev[w].cron \in DOMAIN cronMap
     THEN wpc' = [wpc EXCEPT ![w] = "dispatch"] /\ UNCHANGED wresp
     ELSE /\ wpc' = [wpc EXCEPT ![w] = "done"]
          /\ wresp' = [wresp EXCEPT ![w] = Response("No scripts mapped", 200)]
  /\ UNCHANGED <<wev, kv, dispatches, notWorker>>

\* the POST to /repos/<owner>/<repo>/dispatches: GitHub accepts it, answers
\* with an error status, or the request throws before it is sent
Dispatch(w, answer) ==
  /\ wpc[w] = "dispatch"
  /\ dispatches' =
       IF answer = "throws" THEN dispatches
       ELSE Append(dispatches,
                   [event_type |-> "cron", cron_schedule |-> wev[w].cron,
                    scripts |-> cronMap[wev[w].cron], time |-> wev[w].time])
  /\ wresp' = [wresp EXCEPT ![w] =
                 CASE answer = "ok" -> Response("OK", 200)
                   [] answer = "refused" -> Response("Error: 401", 401)
                   [] OTHER -> Response("Error: message", 500)]
  /\ wpc' = [wpc EXCEPT ![w] = "done"]
  /\ UNCHANGED <<wev, kv, notWorker>>

WorkerNext ==
  \E w \in Invocation :
    \/ \E cron \in Triggers, time \in Times : Scheduled(w, cron, time)
    \/ \E time \in Times : FetchPost(w, time)
    \/ \E ok \in BOOLEAN : KvGet(w, ok)
    \/ \E ok \in BOOLEAN : KvPut(w, ok)
    \/ Lookup(w)
    \/ \E answer \in {"ok", "refused", "throws"} : Dispatch(w, answer)

WorkerSpec == Init /\ [][WorkerNext]_vars

\* the dispatches sent for a cron expression and a scheduled minute
DispatchesOf(cron, time) ==
  {k \in 1..Len(dispatches) :
     dispatches[k].cron_schedule = cron /\ dispatches[k].time = time}

\* C19: for a cron expression and a UTC minute of the scheduled time, the
\* worker sends at most one repository_dispatch, also when scheduled() is
\* invoked twice concurrently for that cron and minute.
C19_OneDispatchPerCronMinute ==
  \A cron \in Crons, time \in Times : Cardinality(DispatchesOf(cron, time)) <= 1

\* the minute lists of the minute-based version of scheduled
SevenMinuteList == {2, 9, 16, 23, 37, 44, 51, 58}
QuarterHourList == {0, 15, 45}

\* the two script groups
MonitoringScripts == <<"monitor_delist", "cancel_pending_limits">>
QuarterHourScripts == <<"fetch_filled_orders", "auto_sell_orders">>

C24_ManualPostDispatches ==
  \A w \in Invocation :
    (wev[w].cron = "manual" /\ wpc[w] = "done") =>
      \E k \in 1..Len(dispatches) : dispatches[k].cron_schedule = "manual"

\* the script lists as the claim gives them
ListedScripts ==
  (EveryFive :> <<"monitor_delist", "cancel_pending_limits">>)
    @@ (EveryFifteen :> <<"fetch_filled_orders", "auto_sell_orders">>)
    @@ (Nightly :> <<"auto_sell_orders", "cancel_pending_triggers">>)
    @@ (Morning :> <<"create_algo_triggers">>)

\* every dispatch carries the list of its cron expression, in order, and no
\* dispatch is sent for another cron value
DispatchesAreListed ==
  \A k \in 1..Len(dispatches) :
    /\ dispatches[k].cron_schedule \in DOMAIN ListedScripts
    /\ dispatches[k].scripts = ListedScripts[dispatches[k].cron_schedule]

\* the invocations that have answered for a cron value without a list
Unlisted == {w \in Invocation : wpc[w] = "done" /\ wev[w].cron \notin DOMAIN ListedScripts}

\* C25 as stated: scheduled() dispatches exactly the script list mapped to
\* event.cron, in the listed order; for every other cron value it sends no
\* dispatch and returns 200 'No scripts mapped'.
C25_UnlistedAnswersNoScripts ==
  /\ DispatchesAreListed
  /\ \A w \in Unlisted : wresp[w] = Response("No scripts mapped", 200)

\* C25 amended: for every other cron value it sends no dispatch and returns
\* 200 'No scripts mapped', or 200 'Duplicate execution prevented' when the
\* run key of that cron value and minute is already stored.
C25_DispatchesListedScripts ==
  /\ DispatchesAreListed
  /\ \A w \in Unlisted :
       \/ wresp[w] = Response("No scripts mapped", 200)
       \/ wresp[w] = Response("Duplicate execution prevented", 200) /\ RunKey(wev[w]) \in kv

\* the nightly list was dispatched, and a trigger without a list was
\* answered 'No scripts mapped'
C25_Witness ==
  /\ \E k \in 1..Len(dispatches) :
       dispatches[k].cron_schedule = Nightly
       /\ dispatches[k].scripts = <<"auto_sell_orders", "cancel_pending_triggers">>
  /\ \E w \in Unlisted :
       wev[w].cron = EveryQuarter /\ wresp[w] = Response("No scripts mapped", 200)

(* ------------------------ API routes (src/app/api) --------------------- *)

\* process.env.STRATEGY_API_KEY
STRATEGY_API_KEY == "secret"

\* the x-api-key header of a request: absent, a wrong value, the right one
Keys == {"none", "wrong", STRATEGY_API_KEY}

\* the routes and the actions of their POST handlers that place or cancel
\* orders or write the tables
Actions ==
  [e \in {"market-sell", "okx-trading", "trading"} |->
     CASE e = "market-sell" -> {"sell_all"}
       [] e = "okx-trading" -> {"place_order", "cancel_order", "market_sell"}
       [] OTHER -> {"place_order", "cancel_order", "sell"}]

\* the POST handlers that begin with the check of the x-api-key header
ChecksKey(endpoint) == endpoint = "market-sell"

\* !expectedApiKey || apiKey !== expectedApiKey
Unauthorized(key) == STRATEGY_API_KEY = "" \/ key # STRATEGY_API_KEY

\* the symbol the requests are about, and the parameters they may carry
Symbol == "BTC"
OrderIds == {1, 2}
Amounts == {1, 2}

\* the requests a client may send
Requests ==
  {[endpoint |-> e, action |-> a, key |-> k, orderId |-> o, amount |-> m] :
     e \in DOMAIN Actions,
     a \in {"sell_all", "place_order", "cancel_order", "sell", "market_sell"},
     k \in Keys, o \in OrderIds \cup {0}, m \in Amounts \cup {0}}

WellFormedRequest(r) ==
  /\ r.action \in Actions[r.endpoint]
  /\ r.orderId # 0 <=> r.action = "cancel_order"
  /\ r.amount # 0 <=> r.action \in {"sell", "market_sell"}

\* the id the database gives the next row of trades
NextId == 1 + Cardinality(trades)

Respond(h, status) ==
  /\ hpc' = [hpc EXCEPT ![h] = "done"]
  /\ hstatus' = [hstatus EXCEPT ![h] = status]

Goto(h, pc) ==
  /\ hpc' = [hpc EXCEPT ![h] = pc]
  /\ UNCHANGED hstatus

\* POST, entry: the handler reads the request; a handler that checks the
\* x-api-key header answers 401 to a request without the right key
Receive(h, r) ==
  /\ hpc[h] = "idle"
  /\ WellFormedRequest(r)
  /\ hreq' = [hreq EXCEPT ![h] = r]
  /\ IF ChecksKey(r.endpoint) /\ Unauthorized(r.key)
     THEN Respond(h, 401)
     ELSE Goto(h, "run")
  /\ UNCHANGED <<hseen, okxCalls, trades, portfolio, notApi>>

Handling(h, endpoint, action) ==
  hpc[h] = "run" /\ hreq[h].endpoint = endpoint /\ hreq[h].action = action

OkxCall(h, op) == okxCalls' = okxCalls \cup {[op |-> op, by |-> h]}

\* market-sell POST: connection test and balances ("down": they fail),
\* then a market sell order for the asset held; a failed order is counted
\* and the response is still 200
MarketSell(h, answer) ==
  /\ Handling(h, "market-sell", "sell_all")
  /\ IF answer = "down"
     THEN Respond(h, 500) /\ UNCHANGED okxCalls
     ELSE Respond(h, 200) /\ OkxCall(h, "placeOrder")
  /\ UNCHANGED <<hreq, hseen, trades, portfolio, notApi>>

\* okx-trading handlePlaceOrder: okxClient.placeOrder
HandlePlaceOrder(h, answer) ==
  /\ Handling(h, "okx-trading", "place_order")
  /\ OkxCall(h, "placeOrder")
  /\ IF answer = "ok" THEN Goto(h, "db") ELSE Respond(h, 500)
  /\ UNCHANGED <<hreq, hseen, trades, portfolio, notApi>>

\* okx-trading handlePlaceOrder: the order is recorded in trades; a
\* database error is logged only
RecordOrder(h, dbok) ==
  /\ hpc[h] = "db" /\ hreq[h].action = "place_order"
  /\ trades' = IF dbok
               THEN trades \cup {[id |-> NextId, symbol |-> Symbol, side |-> "buy",
                                  status |-> "pending"]}
               ELSE trades
  /\ Respond(h, 200)
  /\ UNCHANGED <<hreq, hseen, okxCalls, portfolio, notApi>>

\* okx-trading handleCancelOrder: okxClient.cancelOrder; "empty" is an
\* answer without data, after which trades is not updated
HandleCancelOrder(h, answer) ==
  /\ Handling(h, "okx-trading", "cancel_order")
  /\ OkxCall(h, "cancelOrder")
  /\ CASE answer = "ok" -> Goto(h, "db")
       [] answer = "empty" -> Respond(h, 200)
       [] OTHER -> Respond(h, 500)
  /\ UNCHANGED <<hreq, hseen, trades, portfolio, notApi>>

\* okx-trading handleCancelOrder: update trades set status = 'cancelled'
\* where symbol = <symbol>
MarkCancelled(h) ==
  /\ hpc[h] = "db" /\ hreq[h].action = "cancel_order"
  /\ trades' = {IF t.symbol = Symbol THEN [t EXCEPT !.status = "cancelled"] ELSE t :
                 t \in trades}
  /\ Respond(h, 200)
  /\ UNCHANGED <<hreq, hseen, okxCalls, portfolio, notApi>>

\* trading POST place_order: insert a pending trade
TradingPlaceOrder(h, dbok) ==
  /\ Handling(h, "trading", "place_order")
  /\ IF dbok
     THEN /\ trades' = trades \cup {[id |-> NextId, symbol |-> Symbol, side |-> "buy",
                                     status |-> "pending"]}
          /\ Respond(h, 200)
     ELSE UNCHANGED trades /\ Respond(h, 500)
  /\ UNCHANGED <<hreq, hseen, okxCalls, portfolio, notApi>>

\* trading POST cancel_order: update trades set status = 'cancelled'
\* where id = orderId
TradingCancelOrder(h, dbok) ==
  /\ Handling(h, "trading", "cancel_order")
  /\ IF dbok
     THEN /\ trades' = {IF t.id = hreq[h].orderId THEN [t EXCEPT !.status = "cancelled"]
                        ELSE t : t \in trades}
          /\ Respond(h, 200)
     ELSE UNCHANGED trades /\ Respond(h, 500)
  /\ UNCHANGED <<hreq, hseen, okxCalls, portfolio, notApi>>

\* trading POST sell: read the portfolio row of the symbol
TradingSellRead(h) ==
  /\ Handling(h, "trading", "sell")
  /\ IF Symbol \notin DOMAIN portfolio \/ portfolio[Symbol] < hreq[h].amount
     THEN Respond(h, 400) /\ UNCHANGED hseen
     ELSE Goto(h, "insert") /\ hseen' = [hseen EXCEPT ![h] = portfolio[Symbol]]
  /\ UNCHANGED <<hreq, okxCalls, trades, portfolio, notApi>>

\* trading POST sell: insert the filled sell trade
TradingSellInsert(h, dbok) ==
  /\ hpc[h] = "insert"
  /\ IF dbok
     THEN /\ trades' = trades \cup {[id |-> NextId, symbol |-> Symbol, side |-> "sell",
                                     status |-> "filled"]}
          /\ Goto(h, "update")
     ELSE UNCHANGED trades /\ Respond(h, 500)
  /\ UNCHANGED <<hreq, hseen, okxCalls, portfolio, notApi>>

\* trading POST sell: newAmount = portfolio.amount - amount, written to the
\* row, or the row deleted when nothing is left
TradingSellUpdate(h) ==
  /\ hpc[h] = "update"
  /\ LET newAmount == hseen[h] - hreq[h].amount
     IN portfolio' =
          IF Symbol \notin DOMAIN portfolio THEN portfolio
          ELSE IF newAmount > 0 THEN [portfolio EXCEPT ![Symbol] = newAmount]
          ELSE [s \in DOMAIN portfolio \ {Symbol} |-> portfolio[s]]
  /\ Respond(h, 200)
  /\ UNCHANGED <<hreq, hseen, okxCalls, trades, notApi>>

\* okxClient.placeOrder with a market sell order of size sz
OkxSell(h, sz) ==
  okxCalls' = okxCalls \cup {[op |-> "placeOrder", by |-> h, side |-> "sell", sz |-> sz]}

\* okx-trading handleMarketSell: the check of the holdings
HandleMarketSell(h) ==
  /\ Handling(h, "okx-trading", "market_sell")
  /\ IF Symbol \notin DOMAIN portfolio \/ portfolio[Symbol] < hreq[h].amount
     THEN Respond(h, 400)
     ELSE Goto(h, "price")
  /\ UNCHANGED <<hreq, hseen, okxCalls, trades, portfolio, notApi>>

\* okx-trading handleMarketSell: getMarketPrice ("down": it throws), then
\* placeOrder with sz = amount ("error": it throws or answers without data)
PlaceMarketSell(h, answer) ==
  /\ hpc[h] = "price"
  /\ CASE answer = "down" -> Respond(h, 500) /\ UNCHANGED okxCalls
       [] answer = "error" -> Respond(h, 500) /\ OkxSell(h, hreq[h].amount)
       [] OTHER -> Goto(h, "record") /\ OkxSell(h, hreq[h].amount)
  /\ UNCHANGED <<hreq, hseen, trades, portfolio, notApi>>

\* okx-trading handleMarketSell: the filled sell trade is inserted; a
\* database error is logged only
RecordMarketSell(h, dbok) ==
  /\ hpc[h] = "record"
  /\ trades' = IF dbok
               THEN trades \cup {[id |-> NextId, symbol |-> Symbol, side |-> "sell",
                                  status |-> "filled"]}
               ELSE trades
  /\ Goto(h, "existing")
  /\ UNCHANGED <<hreq, hseen, okxCalls, portfolio, notApi>>

\* updatePortfolioAfterTrade(side 'sell'): the row is read again; without
\* a row, or when the read throws, nothing is written
UpdatePortfolioRead(h, dbok) ==
  /\ hpc[h] = "existing"
  /\ IF dbok /\ Symbol \in DOMAIN portfolio
     THEN Goto(h, "reduce") /\ hseen' = [hseen EXCEPT ![h] = portfolio[Symbol]]
     ELSE Respond(h, 200) /\ UNCHANGED hseen
  /\ UNCHANGED <<hreq, okxCalls, trades, portfolio, notApi>>

\* updatePortfolioAfterTrade(side 'sell'): newAmount = existing.amount -
\* amount, written to the row, or the row deleted when nothing is left
UpdatePortfolioWrite(h) ==
  /\ hpc[h] = "reduce"
  /\ LET newAmount == hseen[h] - hreq[h].amount
     IN portfolio' =
          IF Symbol \notin DOMAIN portfolio THEN portfolio
          ELSE IF newAmount > 0 THEN [portfolio EXCEPT ![Symbol] = newAmount]
          ELSE [s \in DOMAIN portfolio \ {Symbol} |-> portfolio[s]]
  /\ Respond(h, 200)
  /\ UNCHANGED <<hreq, hseen, okxCalls, trades, notApi>>

ApiNext ==
  \E h \in Request :
    \/ \E r \in Requests : Receive(h, r)
    \/ \E answer \in {"ok", "error", "down"} : MarketSell(h, answer)
    \/ \E answer \in {"ok", "error"} : HandlePlaceOrder(h, answer)
    \/ \E dbok \in BOOLEAN : RecordOrder(h, dbok)
    \/ \E answer \in {"ok", "empty", "error"} : HandleCancelOrder(h, answer)
    \/ MarkCancelled(h)
    \/ \E dbok \in BOOLEAN : TradingPlaceOrder(h, dbok)
    \/ \E dbok \in BOOLEAN : TradingCancelOrder(h, dbok)
    \/ TradingSellRead(h)
    \/ \E dbok \in BOOLEAN : TradingSellInsert(h, dbok)
    \/ TradingSellUpdate(h)
    \/ HandleMarketSell(h)
    \/ \E answer \in {"ok", "error", "down"} : PlaceMarketSell(h, answer)
    \/ \E dbok \in BOOLEAN : RecordMarketSell(h, dbok)
    \/ \E dbok \in BOOLEAN : UpdatePortfolioRead(h, dbok)
    \/ UpdatePortfolioWrite(h)

ApiSpec == Init /\ [][ApiNext]_vars

\* C20: a request to an endpoint that can place or cancel exchange orders
\* or change the trades or portfolio tables, whose x-api-key header is
\* missing or differs from STRATEGY_API_KEY, is answered 401, and no step
\* of its handler calls the exchange or writes the database.
C20_NoKeyNoEffect ==
  [][\A h \in Request :
       (hpc'[h] # hpc[h] /\ Unauthorized(hreq'[h].key))
         => /\ okxCalls' = okxCalls
            /\ trades' = trades
            /\ portfolio' = portfolio
            /\ hpc'[h] = "done" => hstatus'[h] = 401]_vars

\* the market sell orders handleMarketSell has submitted
MarketSells == {c \in okxCalls : "sz" \in DOMAIN c}

RECURSIVE TotalSize(_)
TotalSize(calls) ==
  IF calls = {} THEN 0
  ELSE LET c == CHOOSE x \in calls : TRUE IN c.sz + TotalSize(calls \ {c})

\* C28: the total amount submitted in market-sell orders by
\* handleMarketSell never exceeds the amount held in the symbol's portfolio
\* row, also when two market_sell requests are handled concurrently.
C28_SellsWithinHolding == TotalSize(MarketSells) <= Holding

\* the trade row of an id, before a step
TradeRow(id) == CHOOSE t \in trades : t.id = id

\* C29: cancelling an order changes the status of that order's trade row
\* only, and only from pending to cancelled: a filled row never becomes
\* cancelled and the rows of other orders of the symbol are unchanged.
C29_CancelChangesOneRow ==
  [][trades' = trades \/
     \A h \in Request :
       (hreq[h].action = "cancel_order" /\ hpc'[h] # hpc[h]) =>
         \A t \in trades' :
           \/ t \in trades
           \/ /\ t.id = hreq[h].orderId
              /\ TradeRow(t.id).status = "pending"
              /\ t = [TradeRow(t.id) EXCEPT !.status = "cancelled"]]_vars

(* ------------------------- OKXClient (src/lib/okx.ts) ------------------ *)

\* number of placeOrder calls made on the client
NumCalls == 2

defaultMaxRetries == 3
defaultRetryDelay == 1000
errorThresholdPercentage == 50

\* a || b of JavaScript for an optional number: b when a is undefined or 0
Or(a, b) == IF a = Undefined \/ a = 0 THEN b ELSE a

\* retries: config.maxRetries || this.defaultMaxRetries
Retries == Or(copt.maxRetries, defaultMaxRetries)

\* retryDelay: (config.retryDelay || this.defaultRetryDelay) * Math.pow(2, retryCount - 1)
RetryDelay(retryCount) == Or(copt.retryDelay, defaultRetryDelay) * 2 ^ (retryCount - 1)

\* the values of the options maxRetries and retryDelay a configuration may give
MaxRetriesOptions == {Undefined, 0, 1, 2}
RetryDelayOptions == {Undefined, 0, 500}

\* the orderParams the callers may pass: two complete orders, and orders
\* with a field missing or a size that is not positive
MarketSellOrder ==
  [instId |-> "BTC-USDT", tdMode |-> "cash", side |-> "sell", ordType |-> "market", sz |-> 1]

LimitBuyOrder ==
  [instId |-> "BTC-USDT", tdMode |-> "cash", side |-> "buy", ordType |-> "limit", sz |-> 1,
   px |-> 450000, clOrdId |-> "algo_buy_BTC"]

OrderInputs ==
  {MarketSellOrder, LimitBuyOrder,
   [MarketSellOrder EXCEPT !.instId = ""],
   [MarketSellOrder EXCEPT !.tdMode = ""],
   [MarketSellOrder EXCEPT !.side = ""],
   [MarketSellOrder EXCEPT !.ordType = ""],
   [f \in DOMAIN MarketSellOrder \ {"sz"} |-> MarketSellOrder[f]],
   [f \in DOMAIN LimitBuyOrder \ {"px"} |-> LimitBuyOrder[f]],
   [MarketSellOrder EXCEPT !.sz = 0],
   [LimitBuyOrder EXCEPT !.sz = -1]}

\* what may become of a request: the exchange answers 200 with code 0
\* ("ok"), 200 with another code ("rejected"), HTTP 4xx, HTTP 5xx before or
\* after it accepted the order, nothing (a network error, the request lost
\* or only its answer), or nothing within the timeout
Answers ==
  {"ok", "rejected", "http_4xx", "http_5xx", "accepted_http_5xx", "network_error",
   "accepted_network_error", "timeout"}

\* the answers with which the exchange has created the order
Accepting == {"ok", "accepted_http_5xx", "accepted_network_error"}

\* retryCondition, for a POST: a network error (not a timeout) or a status >= 500
RetryCondition(answer) ==
  answer \in {"network_error", "accepted_network_error", "http_5xx", "accepted_http_5xx"}

\* createCircuitBreaker: a new CircuitBreaker, closed and without statistics
CreateCircuitBreaker == [state |-> "closed", fires |-> 0, failures |-> 0]

Min(a, b) == IF a < b THEN a ELSE b

\* constructor
Construct(maxRetries, retryDelay) ==
  /\ cpc = "new"
  /\ copt' = [maxRetries |-> maxRetries, retryDelay |-> retryDelay]
  /\ cpc' = "ready"
  /\ UNCHANGED <<ccalls, cparams, cout, csent, ccreated, cdelays, cfires, cfailures,
                 ctripped, csince, notClient>>

\* placeOrder, entry: validateOrderParams throws, or a circuit breaker is
\* created for this call and fired
PlaceOrder(orderParams) ==
  /\ cpc = "ready"
  /\ ccalls < NumCalls
  /\ ccalls' = ccalls + 1
  /\ cparams' = orderParams
  /\ csent' = 0 /\ ccreated' = 0 /\ cdelays' = <<>>
  /\ LET circuitBreaker == CreateCircuitBreaker
     IN IF ~ValidOrderParams(orderParams)
        THEN cout' = "invalid" /\ UNCHANGED <<cpc, cfires, cfailures>>
        ELSE IF circuitBreaker.state = "open"
        THEN /\ cout' = "failed" /\ cfires' = cfires + 1 /\ cfailures' = cfailures + 1
             /\ UNCHANGED cpc
        ELSE cout' = "none" /\ cpc' = "request" /\ cfires' = cfires + 1 /\ UNCHANGED cfailures
  /\ UNCHANGED <<copt, ctripped, csince, notClient>>

\* makeRequest: the request is sent and answered. A second order with the
\* clOrdId of an order the exchange has created is not created again.
Send(answer) ==
  /\ cpc = "request"
  /\ ("clOrdId" \in DOMAIN cparams /\ ccreated > 0) => answer \notin Accepting
  /\ csent' = csent + 1
  /\ ccreated' = IF answer \in Accepting THEN ccreated + 1 ELSE ccreated
  /\ IF answer = "ok"
     THEN /\ cpc' = "ready" /\ cout' = "ok"
          /\ UNCHANGED <<cfailures, ctripped, csince>>
     ELSE IF RetryCondition(answer) /\ Len(cdelays) < Retries
     THEN /\ cpc' = "backoff"
          /\ UNCHANGED <<cout, cfailures, ctripped, csince>>
     ELSE /\ cpc' = "ready" /\ cout' = "failed"
          /\ cfailures' = cfailures + 1
          /\ ctripped' = ((cfailures + 1) * 100 > errorThresholdPercentage * cfires)
          /\ csince' = 0
  /\ UNCHANGED <<copt, ccalls, cparams, cdelays, cfires, notClient>>

\* axios-retry waits retryDelay(retryCount) and sends the request again
Backoff ==
  /\ cpc = "backoff"
  /\ LET delay == RetryDelay(Len(cdelays) + 1)
     IN /\ cdelays' = Append(cdelays, delay)
        /\ csince' = Min(csince + delay, ResetTimeout)
  /\ cpc' = "request"
  /\ UNCHANGED <<copt, ccalls, cparams, cout, csent, ccreated, cfires, cfailures,
                 ctripped, notClient>>

\* time passes between two calls, half a reset timeout at a time
ClientTick ==
  /\ cpc = "ready"
  /\ csince < ResetTimeout
  /\ csince' = Min(csince + ResetTimeout \div 2, ResetTimeout)
  /\ UNCHANGED <<cpc, copt, ccalls, cparams, cout, csent, ccreated, cdelays, cfires,
                 cfailures, ctripped, notClient>>

ClientNext ==
  \/ \E maxRetries \in MaxRetriesOptions, retryDelay \in RetryDelayOptions :
       Construct(maxRetries, retryDelay)
  \/ \E orderParams \in OrderInputs : PlaceOrder(orderParams)
  \/ \E answer \in Answers : Send(answer)
  \/ Backoff
  \/ ClientTick

ClientSpec == Init /\ [][ClientNext]_vars

\* C21: after placeOrder calls on the client have failed at a rate above
\* the error threshold the circuit is open: until the reset timeout has
\* elapsed, a following placeOrder call sends no request to the exchange.
C21_OpenCircuitRejects ==
  [][(cpc = "ready" /\ ctripped /\ csince < ResetTimeout) => cpc' # "request"]_vars

\* the options maxRetries and retryDelay as the configuration states them
MaxRetriesStated == IF copt.maxRetries = Undefined THEN defaultMaxRetries ELSE copt.maxRetries
RetryDelayStated == IF copt.retryDelay = Undefined THEN defaultRetryDelay ELSE copt.retryDelay

\* C22: a request is re-sent at most maxRetries times (3 by default), and
\* the delay before retry n is retryDelay * 2^(n-1) (1000, 2000, 4000 ms
\* by default).
C22_BoundedRetries ==
  /\ Len(cdelays) <= MaxRetriesStated
  /\ csent <= 1 + MaxRetriesStated
  /\ \A n \in 1..Len(cdelays) : cdelays[n] = RetryDelayStated * 2 ^ (n - 1)

\* the orderParams the claim names: a required field missing, a limit order
\* without px, or a size that is not positive
Missing(params, f) == f \notin DOMAIN params \/ params[f] = ""

NotPlaceable(params) ==
  \/ \E f \in {"instId", "tdMode", "side", "ordType"} : Missing(params, f)
  \/ "sz" \notin DOMAIN params
  \/ params.ordType = "limit" /\ "px" \notin DOMAIN params
  \/ params.sz <= 0

\* C26: placeOrder throws and sends no request to the exchange when instId,
\* tdMode, side, ordType or sz is missing, when ordType is 'limit' and px is
\* missing, or when sz is <= 0.
C26_InvalidOrderNotSent ==
  (ccalls > 0 /\ NotPlaceable(cparams)) =>
    (cout = "invalid" /\ cpc = "ready" /\ csent = 0 /\ ccreated = 0)

\* an order of size 0 was refused after a first order had been placed
C26_Witness ==
  /\ ccalls = 2 /\ cfires = 1
  /\ "sz" \in DOMAIN cparams /\ cparams.sz = 0
  /\ cout = "invalid" /\ csent = 0

\* C27: one call of placeOrder creates at most one order at the exchange,
\* whatever the exchange answers.
C27_AtMostOneOrder == ccreated <= 1

====
